---- MODULE Spec2Model ----
(***************************************************************************)
(* Model of qcore/imdb.py: the build of the intensity-measure store        *)
(* (create_imdb and its helpers) and the station query (station_ims).      *)
(*                                                                         *)
(* A source file is a record [sim, ok, cols, rows]: its simulation name,   *)
(* whether pandas can parse it, its measure columns in header order, and   *)
(* its raw rows [station, component, val], val being the cell of each      *)
(* measure column.  File indices are 0-based as in the code; TLA+          *)
(* sequences are 1-based, so file i is csvs[i + 1].                        *)
(*                                                                         *)
(* Specifications: SpecBuild is create_imdb over files whose rows carry    *)
(* any component; SpecPipe is create_imdb over many small files and larger *)
(* pools; Spec is create_imdb over files of retained rows followed by      *)
(* station_ims calls on the finished store; SpecRebuild is create_imdb on  *)
(* a location that may hold an earlier store, over files whose simulation  *)
(* names may coincide and whose column list may be empty; SpecRead adds    *)
(* closest_station, station_details and fill_cache to the calls on the     *)
(* finished store; SpecCalls runs station_ims calls side by side, each a   *)
(* sequence of steps on the file system and the store.                     *)
(***************************************************************************)
EXTENDS Integers, Sequences, FiniteSets, TLC

VARIABLES
    csvs,         \* the discovered source files, in glob order
    station_ll,   \* station list file: name -> <<lon, lat>>
    nproc,        \* worker-pool size
    prior,        \* what db_file held when create_imdb was called
    pc,           \* position of create_imdb
    i,            \* loop index of the commit loop
    step,         \* min(nproc, len(csvs))
    sink,         \* indices of the submitted tasks not yet consumed
    finished,     \* indices of the tasks the workers have finished, in finishing order
    order,        \* file indices in the order the commit loop fetched them
    station_ids,  \* in-memory dict station name -> station id
    error,        \* the exception that ended create_imdb, "" if none
    ims,          \* table ims: measure names in row order
    stations,     \* table stations: rows in rowid order
    simulations,  \* table simulations: rows in rowid order
    tables,       \* the per-measure tables: measure -> rows in rowid order
    cache,        \* cache files: station name -> csv text
    ret,          \* what the last station_ims call returned
    lastq,        \* arguments and footprint of the last station_ims call
    fresh,        \* TRUE while nothing happened since the last station_ims call
    fill,         \* fill_cache: its position and the stations its loop has left
    cache_dir,    \* whether the cache directory exists
    calls         \* the station_ims calls that run side by side, step by step

inputVars == <<csvs, station_ll, nproc, prior>>
buildVars == <<pc, i, step, sink, finished, order, station_ids, error>>
storeVars == <<ims, stations, simulations, tables>>
queryVars == <<cache, ret, lastq, fresh, fill, cache_dir, calls>>
vars == <<inputVars, buildVars, storeVars, queryVars>>

\* ------------------------------------------------------------------ bounds

MaxFiles == 2
MaxRows == 2
MaxProc == 2
MaxPipeFiles == 4
MaxPipeProc == 3
MaxRebuildRows == 1
MaxReadFiles == 1
MaxConcFiles == 1
MaxStaleFiles == 2
NumCalls == 2

\* ------------------------------------------------------------------ domains

Names == {"A", "B"}
Measures == <<"PGA", "PGV">>
Components == {"geom", "090"}
ColumnLists == {<<"PGA">>, <<"PGA", "PGV">>, <<"PGV">>}
SimNames == <<"f_HYP01", "f_HYP02", "f_HYP03", "f_HYP04", "f_HYP05">>
NoStation == "Z"

\* the simulation names that different run folders can share
SharedSimNames == {"f_HYP01", "f_HYP02"}

\* no db_file, and the store an earlier build of one file (station B, column
\* PGV) has left
NoStore == [ims |-> <<>>, stations |-> <<>>, simulations |-> <<>>, tables |-> <<>>]
OldStore ==
    [ims |-> <<"PGV">>,
     stations |-> <<[id |-> 1, name |-> "B", longitude |-> 174, latitude |-> -41]>>,
     simulations |-> <<[id |-> 1, name |-> "old_HYP01"]>>,
     tables |-> [im \in {"PGV"} |->
                   <<[station_id |-> 1, simulation_id |-> 1, value |-> 901]>>]]

Range(s) == {s[k] : k \in DOMAIN s}

Min(a, b) == IF a < b THEN a ELSE b

SeqsUpTo(S, n) == UNION {[1..m -> S] : m \in 0..n}

MeasureIndex(im) == CHOOSE k \in DOMAIN Measures : Measures[k] = im

\* The cell of measure im in raw row r of file k: distinct cells hold distinct,
\* non-zero values.
CellValue(k, r, im) == 100 * (k + 1) + 10 * r + MeasureIndex(im)

LonLat(name) == IF name = "A" THEN <<172, -43>> ELSE <<174, -41>>

\* ------------------------------------------------------------------ helpers

RECURSIVE Concat(_)
Concat(ss) == IF ss = <<>> THEN <<>> ELSE Head(ss) \o Concat(Tail(ss))

\* the glob'ed file's base name without extension
SimOf(file) == file.sim

\* pd.read_csv(csv, index_col=0), then the rows whose component is "geom",
\* without the component column
pandas_loader(file) ==
    LET geom == SelectSeq(file.rows, LAMBDA r : r.component = "geom")
    IN  [columns |-> file.cols,
         rows |-> [k \in DOMAIN geom |-> [name |-> geom[k].station, val |-> geom[k].val]]]

\* c.index.values
IndexOf(c) == [k \in DOMAIN c.rows |-> c.rows[k].name]

\* listed_stations: the subset of stations that are in the station list file
listed_stations(stns) == SelectSeq(stns, LAMBDA s : s \in DOMAIN station_ll)

\* c.loc[labels]: for every label in turn, all rows of c carrying it
Loc(c, labels) ==
    [columns |-> c.columns,
     rows |-> Concat([k \in DOMAIN labels |->
                        SelectSeq(c.rows, LAMBDA r : r.name = labels[k])])]

\* the parsed table of file k and its stations of interest
Parsed(k) == pandas_loader(csvs[k + 1])
Interesting(k) == listed_stations(IndexOf(Parsed(k)))

\* ------------------------------------------------------------------ store

\* __init_db: the ims registry and one empty table per measure
init_db_ims(columns) == columns

\* mutant: a value table for every known measure
init_db_tables_all(columns) == [im \in Range(Measures) |-> <<>>]

init_db_tables(columns) == [im \in Range(columns) |-> <<>>]

\* AUTOINCREMENT id of the next row of a table that never deletes
NextId(rows) == Len(rows) + 1

\* mutant: simulations.name carries no UNIQUE constraint
add_simulation_ok_always(name) == TRUE

\* __add_simulation: the UNIQUE name constraint decides whether it succeeds
add_simulation_ok(name) == \A k \in DOMAIN simulations : simulations[k].name # name
add_simulation(name) == Append(simulations, [id |-> NextId(simulations), name |-> name])

RECURSIVE Reverse(_)
Reverse(q) == IF q = <<>> THEN <<>> ELSE Append(Reverse(Tail(q)), Head(q))

\* mutant: the new stations are inserted last-seen first
stations_new_reversed(ids, stns) == Reverse(SelectSeq(stns, LAMBDA s : s \notin DOMAIN ids))

\* __expand_stations: stations_new
stations_new(ids, stns) == SelectSeq(stns, LAMBDA s : s \notin DOMAIN ids)

\* every INSERT of the loop passes the UNIQUE name constraint
expand_stations_ok(ids, stns) ==
    LET new == stations_new(ids, stns)
    IN  \A a, b \in DOMAIN new : a # b => new[a] # new[b]

expand_stations_rows(ids, stns) ==
    LET new == stations_new(ids, stns)
    IN  stations \o [k \in DOMAIN new |->
                       [id |-> Len(stations) + k, name |-> new[k],
                        longitude |-> station_ll[new[k]][1],
                        latitude |-> station_ll[new[k]][2]]]

expand_stations_ids(ids, stns) ==
    LET new == stations_new(ids, stns)
    IN  [s \in DOMAIN ids \cup Range(new) |->
            IF s \in DOMAIN ids THEN ids[s]
            ELSE Len(stations) + (CHOOSE k \in DOMAIN new : new[k] = s)]

\* the dict after the loop stopped at the first INSERT of a name inserted
\* before: the entries set until then stay, their rows are rolled back
expand_stations_ids_failed(ids, stns) ==
    LET new == stations_new(ids, stns)
        d == CHOOSE b \in DOMAIN new :
                /\ \E a \in 1..(b - 1) : new[a] = new[b]
                /\ \A c \in 1..(b - 1) : \A a \in 1..(c - 1) : new[a] # new[c]
    IN  [s \in DOMAIN ids \cup {new[k] : k \in 1..(d - 1)} |->
            IF s \in DOMAIN ids THEN ids[s]
            ELSE Len(stations) + (CHOOSE k \in 1..(d - 1) : new[k] = s)]

\* __store_ims: every column of the table needs its measure table
store_ims_ok(table) == Range(table.columns) \subseteq DOMAIN tables

store_ims(table, ids, sim_id) ==
    [im \in DOMAIN tables |->
        IF im \in Range(table.columns)
        THEN tables[im] \o [k \in DOMAIN table.rows |->
                              [station_id |-> ids[table.rows[k].name],
                               simulation_id |-> sim_id,
                               value |-> table.rows[k].val[im]]]
        ELSE tables[im]]

\* ------------------------------------------------------------------ build

\* raw rows of file k: every row a station name and a component, the cells
\* filled by CellValue
RawRows(k, rowLists) ==
    {[r \in DOMAIN names |->
        [station |-> names[r][1], component |-> names[r][2],
         val |-> [im \in Range(Measures) |-> CellValue(k, r, im)]]] :
     names \in rowLists}

\* the files a run directory can hold at position k
Files(k, rowLists, colLists) ==
    {[sim |-> SimNames[k + 1], ok |-> TRUE, cols |-> cols,
      rows |-> [r \in DOMAIN rows |->
                  [station |-> rows[r].station, component |-> rows[r].component,
                   val |-> [im \in Range(cols) |-> rows[r].val[im]]]]] :
        cols \in colLists, rows \in RawRows(k, rowLists)}
    \cup {[sim |-> SimNames[k + 1], ok |-> FALSE, cols |-> <<>>, rows |-> <<>>]}

RECURSIVE FileListsOfLen(_, _, _)
FileListsOfLen(n, rowLists, colLists) ==
    IF n = 0 THEN {<<>>}
    ELSE {Append(fs, f) : fs \in FileListsOfLen(n - 1, rowLists, colLists),
                          f \in Files(n - 1, rowLists, colLists)}

FileLists(maxFiles, rowLists, colLists) ==
    UNION {FileListsOfLen(n, rowLists, colLists) : n \in 0..maxFiles}

StationLists == {[s \in S |-> LonLat(s)] : S \in SUBSET Names}

\* the callers of station_ims that run side by side, none of them calling yet
Procs == 1..NumCalls
NoRun == [pc |-> "idle", station |-> NoStation, df |-> [kind |-> "none"], off |-> 0,
          ret |-> [kind |-> "none"]]

NoFill == [pc |-> "idle", todo |-> <<>>]

NoCall == [station |-> NoStation, im |-> "None", reads |-> 0, fanout |-> 0, hit |-> FALSE]

\* the state before create_imdb is called: no store, no cache
InitWith(fileLists, stationLists, procs) ==
    /\ csvs \in fileLists
    /\ station_ll \in stationLists
    /\ nproc \in procs
    /\ prior = NoStore
    /\ pc = "start"
    /\ i = 0
    /\ step = 0
    /\ sink = {}
    /\ finished = <<>>
    /\ order = <<>>
    /\ station_ids = <<>>
    /\ error = ""
    /\ ims = <<>>
    /\ stations = <<>>
    /\ simulations = <<>>
    /\ tables = <<>>
    /\ cache = <<>>
    /\ ret = [kind |-> "none"]
    /\ lastq = NoCall
    /\ fresh = FALSE
    /\ fill = NoFill
    /\ cache_dir = FALSE
    /\ calls = [p \in Procs |-> NoRun]

\* the row lists of a file: up to MaxRows rows, each a station and a component
RowLists(comps) == SeqsUpTo(Names \X comps, MaxRows)

\* builds over files whose rows carry any component
InitBuild ==
    InitWith(FileLists(MaxFiles, RowLists(Components), ColumnLists), StationLists, 1..MaxProc)

\* builds over files of "geom" rows, followed by queries
Init ==
    InitWith(FileLists(MaxFiles, RowLists({"geom"}), ColumnLists), StationLists, 1..MaxProc)

\* builds over many small files with a larger pool: each file is malformed,
\* without a station of interest, or holds station A
InitPipe ==
    InitWith(FileLists(MaxPipeFiles, {<<>>, <<(<<"A", "geom">>)>>}, {<<"PGA">>}),
             {[s \in {"A"} |-> LonLat(s)]}, 1..MaxPipeProc)

\* the files at position k when the base filename is free
FilesNamed(k, sims, rowLists, colLists) ==
    {[f EXCEPT !.sim = n] : f \in Files(k, rowLists, colLists), n \in sims}

RECURSIVE NamedFileListsOfLen(_, _, _, _)
NamedFileListsOfLen(n, sims, rowLists, colLists) ==
    IF n = 0 THEN {<<>>}
    ELSE {Append(fs, f) : fs \in NamedFileListsOfLen(n - 1, sims, rowLists, colLists),
                          f \in FilesNamed(n - 1, sims, rowLists, colLists)}

\* builds on a location that holds no store or an earlier one, over files of
\* at most MaxRebuildRows "geom" rows whose names may coincide and whose
\* header may hold no measure column
InitRebuild ==
    /\ csvs \in UNION {NamedFileListsOfLen(n, SharedSimNames,
                                          SeqsUpTo(Names \X {"geom"}, MaxRebuildRows),
                                          ColumnLists \cup {<<>>}) : n \in 0..MaxFiles}
    /\ station_ll \in StationLists
    /\ nproc \in 1..MaxProc
    /\ prior \in {NoStore, OldStore}
    /\ pc = "start"
    /\ i = 0
    /\ step = 0
    /\ sink = {}
    /\ finished = <<>>
    /\ order = <<>>
    /\ station_ids = <<>>
    /\ error = ""
    /\ ims = prior.ims
    /\ stations = prior.stations
    /\ simulations = prior.simulations
    /\ tables = prior.tables
    /\ cache = <<>>
    /\ ret = [kind |-> "none"]
    /\ lastq = NoCall
    /\ fresh = FALSE
    /\ fill = NoFill
    /\ cache_dir = FALSE
    /\ calls = [p \in Procs |-> NoRun]

\* mutant: the old file is kept
remove_db_keep(old) == old

\* if os.path.exists(db_file): os.remove(db_file)
remove_db(old) == <<>>

\* mutant: every file is submitted up front
first_step_all(n, files) == Len(files)

\* step = min(nproc, len(csvs))
first_step(n, files) == Min(n, Len(files))

\* mutant: the freed slot is not refilled
next_sink_none(s, k) == s \ {k}

\* mutant: the prefetch index is off by one
next_sink_skip(s, k) ==
    (s \ {k}) \cup (IF k + step + 1 < Len(csvs) THEN {k + step + 1} ELSE {})

\* del sink[i]; sink[i + step] = pool.apply_async(...) unless csvs[i + step]
\* raises IndexError
next_sink(s, k) == (s \ {k}) \cup (IF k + step < Len(csvs) THEN {k + step} ELSE {})

\* mutant: the check for stations of interest is missing
skip_file_never(interesting_stations) == FALSE

\* len(interesting_stations) == 0
skip_file(interesting_stations) == Len(interesting_stations) = 0

\* create_imdb up to the first submissions: the old store is removed, the
\* station list and the file list are read, the first step tasks submitted
Start ==
    /\ pc = "start"
    /\ ims' = remove_db(ims)
    /\ stations' = remove_db(stations)
    /\ simulations' = remove_db(simulations)
    /\ tables' = remove_db(tables)
    /\ step' = first_step(nproc, csvs)
    /\ sink' = 0..(step' - 1)
    /\ finished' = <<>>
    /\ pc' = "init"
    /\ fresh' = FALSE
    /\ UNCHANGED <<inputVars, i, order, station_ids, error, cache, ret, lastq, fill,
                   cache_dir, calls>>

\* a pool worker finishes (or fails) the parse of a submitted file
ParseDone(j) ==
    /\ pc \in {"init", "fetch", "commit"}
    /\ j \in sink \ Range(finished)
    /\ finished' = Append(finished, j)
    /\ UNCHANGED <<inputVars, pc, i, step, sink, order, station_ids, error, storeVars, queryVars>>

\* sink[0].get() and __init_db
InitDb ==
    /\ pc = "init"
    /\ 0 \in sink => 0 \in Range(finished)
    /\ IF 0 \notin sink \/ ~csvs[1].ok
       THEN /\ pc' = "failed"
            /\ error' = (IF 0 \notin sink THEN "KeyError" ELSE "ParseError")
            /\ UNCHANGED <<storeVars, station_ids>>
       ELSE /\ ims' = init_db_ims(Parsed(0).columns)
            /\ tables' = init_db_tables(Parsed(0).columns)
            /\ station_ids' = <<>>
            /\ pc' = "fetch"
            /\ UNCHANGED <<stations, simulations, error>>
    /\ UNCHANGED <<inputVars, i, step, sink, finished, order, queryVars>>

\* the head of the loop body: wait for file i, free its slot, submit file i + step
Fetch ==
    /\ pc = "fetch"
    /\ i < Len(csvs)
    /\ i \in Range(finished)
    /\ order' = Append(order, i)
    /\ IF ~csvs[i + 1].ok
       THEN /\ pc' = "failed"
            /\ error' = "ParseError"
            /\ UNCHANGED sink
       ELSE /\ sink' = next_sink(sink, i)
            /\ pc' = "commit"
            /\ UNCHANGED error
    /\ UNCHANGED <<inputVars, i, step, finished, station_ids, storeVars, queryVars>>

\* the rest of the loop body: skip a file without stations of interest, else
\* __add_simulation, __expand_stations, __store_ims
Commit ==
    /\ pc = "commit"
    /\ LET c == Parsed(i)
           interesting_stations == Interesting(i)
           sim_id == NextId(simulations)
           ids == expand_stations_ids(station_ids, interesting_stations)
       IN  IF skip_file(interesting_stations)
           THEN /\ i' = i + 1
                /\ pc' = "fetch"
                /\ UNCHANGED <<storeVars, station_ids, error>>
           ELSE IF ~add_simulation_ok(SimOf(csvs[i + 1]))
           THEN /\ pc' = "failed"
                /\ error' = "IntegrityError: simulations.name"
                /\ UNCHANGED <<i, storeVars, station_ids>>
           ELSE IF ~expand_stations_ok(station_ids, interesting_stations)
           THEN /\ simulations' = add_simulation(SimOf(csvs[i + 1]))
                /\ pc' = "failed"
                /\ station_ids' = expand_stations_ids_failed(station_ids, interesting_stations)
                /\ error' = "IntegrityError: stations.name"
                /\ UNCHANGED <<i, ims, stations, tables>>
           ELSE IF ~store_ims_ok(Loc(c, interesting_stations))
           THEN /\ simulations' = add_simulation(SimOf(csvs[i + 1]))
                /\ stations' = expand_stations_rows(station_ids, interesting_stations)
                /\ station_ids' = ids
                /\ pc' = "failed"
                /\ error' = "OperationalError: no such table"
                /\ UNCHANGED <<i, ims, tables>>
           ELSE /\ simulations' = add_simulation(SimOf(csvs[i + 1]))
                /\ stations' = expand_stations_rows(station_ids, interesting_stations)
                /\ station_ids' = ids
                /\ tables' = store_ims(Loc(c, interesting_stations), ids, sim_id)
                /\ i' = i + 1
                /\ pc' = "fetch"
                /\ UNCHANGED <<ims, error>>
    /\ UNCHANGED <<inputVars, step, sink, finished, order, queryVars>>

\* the loop is exhausted: conn.close()
Finish ==
    /\ pc = "fetch"
    /\ i = Len(csvs)
    /\ pc' = "done"
    /\ UNCHANGED <<inputVars, i, step, sink, finished, order, station_ids, error, storeVars, queryVars>>

NextBuild ==
    \/ Start
    \/ \E j \in sink : ParseDone(j)
    \/ InitDb
    \/ Fetch
    \/ Commit
    \/ Finish

SpecBuild == InitBuild /\ [][NextBuild]_vars

SpecPipe == InitPipe /\ [][NextBuild]_vars

SpecRebuild == InitRebuild /\ [][NextBuild]_vars

\* SpecPipe with workers that finish every task they are given and a main
\* process that runs whenever it is not waiting in get()
SpecPipeFair ==
    /\ InitPipe
    /\ [][NextBuild]_vars
    /\ WF_vars(\E j \in sink : ParseDone(j))
    /\ WF_vars(Start \/ InitDb \/ Fetch \/ Commit \/ Finish)

\* ------------------------------------------------------------------ query

\* ORDER BY simulation_id over rows given in rowid order
RECURSIVE InsertBySim(_, _)
InsertBySim(sorted, row) ==
    IF sorted = <<>> THEN <<row>>
    ELSE IF sorted[Len(sorted)].simulation_id <= row.simulation_id
         THEN Append(sorted, row)
         ELSE Append(InsertBySim(SubSeq(sorted, 1, Len(sorted) - 1), row),
                     sorted[Len(sorted)])

RECURSIVE OrderBySim(_)
OrderBySim(rows) ==
    IF rows = <<>> THEN <<>>
    ELSE InsertBySim(OrderBySim(SubSeq(rows, 1, Len(rows) - 1)), rows[Len(rows)])

\* the rows of a measure table for one station
RowsAt(im, station_id) == SelectSeq(tables[im], LAMBDA r : r.station_id = station_id)

\* __im_at_station: a 2 x n_sim array of zeros, filled column by column from
\* the ordered rows; a row past n_sim raises IndexError
im_at_station(im, station_id, n_sim) ==
    LET rows == OrderBySim(RowsAt(im, station_id))
    IN  [ok |-> Len(rows) <= n_sim,
         ids |-> [r \in 1..n_sim |-> IF r <= Len(rows) THEN rows[r].simulation_id ELSE 0],
         vals |-> [r \in 1..n_sim |-> IF r <= Len(rows) THEN rows[r].value ELSE 0]]

\* mutant: the index is not written (index=False)
to_csv_no_index(df) ==
    <<df.columns>> \o [r \in DOMAIN df.index |-> df.values[r]]

\* df.to_csv: a header line of an empty field and the columns, then one line
\* per row: its label and its values
to_csv(df) ==
    <<(<<"">> \o df.columns)>> \o
    [r \in DOMAIN df.index |-> <<df.index[r]>> \o df.values[r]]

\* pd.read_csv(csv, index_col=0)
read_csv(text) ==
    LET body == Tail(text)
    IN  [kind |-> "frame",
         columns |-> Tail(Head(text)),
         index |-> [r \in DOMAIN body |-> Head(body[r])],
         values |-> [r \in DOMAIN body |-> Tail(body[r])]]

\* dataframe[im], or the dataframe when im is None
Project(df, im) ==
    IF im = "None" THEN df
    ELSE IF im \notin Range(df.columns) THEN [kind |-> "raise", error |-> "KeyError"]
    ELSE LET k == CHOOSE c \in DOMAIN df.columns : df.columns[c] = im
         IN  [kind |-> "series", name |-> im, index |-> df.index,
              values |-> [r \in DOMAIN df.values |-> df.values[r][k]]]

\* SELECT name FROM simulations WHERE id in (...) ORDER BY id
NamesOfSims(ids) ==
    LET hit == SelectSeq(simulations, LAMBDA r : r.id \in Range(ids))
    IN  [k \in DOMAIN hit |-> hit[k].name]

\* the table station_ims assembles from the store
Assemble(station_id) ==
    LET n_im == Len(ims)
        n_sim == Len(RowsAt(ims[1], station_id))
        id_vals == [k \in 1..n_im |-> im_at_station(ims[k], station_id, n_sim)]
        gm_names == NamesOfSims(id_vals[1].ids)
    IN  IF \E k \in 1..n_im : ~id_vals[k].ok
        THEN [kind |-> "raise", error |-> "IndexError"]
        ELSE IF Len(gm_names) # n_sim
        THEN [kind |-> "raise", error |-> "ValueError"]
        ELSE [kind |-> "frame", columns |-> ims, index |-> gm_names,
              values |-> [r \in 1..n_sim |-> [k \in 1..n_im |-> id_vals[k].vals[r]]]]

\* mutant: the SELECT has no WHERE clause
station_id_rows_any(station) == stations

\* SELECT id FROM stations WHERE name = (?)
station_id_rows(station) == SelectSeq(stations, LAMBDA r : r.name = station)

\* mutant: every station shares one cache file
csv_path_shared(station) == "A"

\* os.path.join("%s_stations" % imdb_file, "%s.csv" % station): the cache
\* directory holds one file per station, named by the station
csv_path(station) == station

\* mutant: the cache file is never looked for
cache_exists_never(csv) == FALSE

\* os.path.exists(csv)
cache_exists(csv) == csv \in DOMAIN cache

\* station_ims(imdb_file, station, im): what it returns, the cache it leaves,
\* the SELECTs it runs and the pool tasks it maps
station_ims(station, im) ==
    IF cache_exists(csv_path(station))
    THEN [ret |-> Project(read_csv(cache[csv_path(station)]), im), cache |-> cache,
          reads |-> 0, fanout |-> 0, hit |-> TRUE]
    ELSE LET found == station_id_rows(station)
         IN  IF found = <<>>
             THEN [ret |-> [kind |-> "None"], cache |-> cache,
                   reads |-> 1, fanout |-> 0, hit |-> FALSE]
             ELSE IF ims = <<>>
             THEN [ret |-> [kind |-> "raise", error |-> "IndexError"], cache |-> cache,
                   reads |-> 2, fanout |-> 0, hit |-> FALSE]
             ELSE LET df == Assemble(found[1].id)
                  IN  IF df.kind = "raise"
                      THEN [ret |-> df, cache |-> cache,
                            reads |-> 3 + Len(ims), fanout |-> Len(ims), hit |-> FALSE]
                      ELSE [ret |-> Project(df, im),
                            cache |-> [s \in DOMAIN cache \cup {csv_path(station)} |->
                                         IF s = csv_path(station) THEN to_csv(df)
                                         ELSE cache[s]],
                            reads |-> 4 + Len(ims), fanout |-> Len(ims), hit |-> FALSE]

\* one call of station_ims on the built store
Query(station, im) ==
    /\ pc = "done"
    /\ LET r == station_ims(station, im)
       IN  /\ ret' = r.ret
           /\ cache' = r.cache
           /\ lastq' = [station |-> station, im |-> im, reads |-> r.reads,
                        fanout |-> r.fanout, hit |-> r.hit]
           /\ cache_dir' = (cache_dir \/ r.cache # cache)
    /\ fresh' = TRUE
    /\ UNCHANGED <<inputVars, buildVars, storeVars, fill, calls>>

Next ==
    \/ NextBuild
    \/ \E station \in Names, im \in {"None"} \cup Range(Measures) : Query(station, im)

Spec == Init /\ [][Next]_vars

\* the cache file station_ims wrote for station B of the old store
OldCache ==
    [s \in {"B"} |->
        to_csv([kind |-> "frame", columns |-> OldStore.ims,
                index |-> <<OldStore.simulations[1].name>>,
                values |-> <<(<<OldStore.tables["PGV"][1].value>>)>>])]

\* a build on the location of the old store after station B was asked of it,
\* over at most MaxStaleFiles files of at most one "geom" row, followed by
\* station_ims calls
InitStale ==
    /\ csvs \in FileLists(MaxStaleFiles, SeqsUpTo(Names \X {"geom"}, 1), ColumnLists)
    /\ station_ll \in StationLists
    /\ nproc \in 1..MaxProc
    /\ prior = OldStore
    /\ pc = "start"
    /\ i = 0
    /\ step = 0
    /\ sink = {}
    /\ finished = <<>>
    /\ order = <<>>
    /\ station_ids = <<>>
    /\ error = ""
    /\ ims = prior.ims
    /\ stations = prior.stations
    /\ simulations = prior.simulations
    /\ tables = prior.tables
    /\ cache = OldCache
    /\ ret = [kind |-> "none"]
    /\ lastq = NoCall
    /\ fresh = FALSE
    /\ fill = NoFill
    /\ cache_dir = TRUE
    /\ calls = [p \in Procs |-> NoRun]

SpecStale == InitStale /\ [][Next]_vars

\* ------------------------------------------------------------------ stations

ReadNames == {"A", "B", "C"}

\* station list files, coordinates in tenths of a degree: three stations on
\* the diagonal, and three on the equator of which A and C share a place and
\* B mirrors them
Layouts ==
    {[s \in ReadNames |-> IF s = "A" THEN <<0, 0>>
                          ELSE IF s = "B" THEN <<10, 10>> ELSE <<100, 100>>],
     [s \in ReadNames |-> IF s = "B" THEN <<-10, 0>> ELSE <<10, 0>>]}

ReadStationLists == {[s \in S |-> l[s]] : S \in SUBSET ReadNames, l \in Layouts}

\* the points (lon, lat) closest_station is asked for, in tenths of a degree
QueryPoints == {<<0, 0>>, <<1, 1>>, <<10, 10>>, <<100, 100>>, <<10, 0>>}

ReadRowLists ==
    {<<>>,
     <<(<<"A", "geom">>)>>,
     <<(<<"B", "geom">>), (<<"A", "geom">>)>>,
     <<(<<"A", "geom">>), (<<"B", "geom">>), (<<"C", "geom">>)>>}

\* a build over at most MaxReadFiles files of column PGA, followed by calls
\* of station_ims, closest_station, station_details and fill_cache
InitRead ==
    InitWith(FileLists(MaxReadFiles, ReadRowLists, {<<"PGA">>}), ReadStationLists, 1..MaxProc)

\* a name read into an "S7" field: a bytes object of at most 7 characters,
\* written here as Python 3 prints it
S7(name) == IF name = "A" THEN "b'A'" ELSE IF name = "B" THEN "b'B'" ELSE "b'C'"

Abs(x) == IF x < 0 THEN 0 - x ELSE x

\* np.sin(np.radians(delta) / 2.0) ** 2 for delta in tenths of a degree, in
\* units of 1e-8, on the differences of the coordinates above
SinSqHalfTable ==
    <<(<<0, 0>>), (<<1, 76>>), (<<9, 6168>>), (<<10, 7615>>), (<<11, 9214>>),
      (<<20, 30459>>), (<<90, 615583>>), (<<99, 744534>>), (<<100, 759612>>),
      (<<110, 918641>>)>>
SinSqHalf(delta) ==
    SinSqHalfTable[CHOOSE k \in DOMAIN SinSqHalfTable :
                     SinSqHalfTable[k][1] = Abs(delta)][2]

\* np.cos(np.radians(lat)) for lat in tenths of a degree, in units of 1e-4
CosTable == <<(<<0, 10000>>), (<<1, 10000>>), (<<10, 9998>>), (<<100, 9848>>)>>
Cos(lat) == CosTable[CHOOSE k \in DOMAIN CosTable : CosTable[k][1] = Abs(lat)][2]

\* the haversine term d of a station at (slon, slat) seen from (lon, lat), in
\* units of 1e-8
haversine(slon, slat, lon, lat) ==
    SinSqHalf(slat - lat)
    + (((Cos(lat) * Cos(slat)) \div 100000) * SinSqHalf(slon - lon)) \div 1000

\* the integer square root, by bisection
RECURSIVE SqrtBetween(_, _, _)
SqrtBetween(lo, hi, y) ==
    IF hi - lo <= 1 THEN lo
    ELSE LET mid == (lo + hi) \div 2
         IN  IF mid * mid <= y THEN SqrtBetween(mid, hi, y) ELSE SqrtBetween(lo, mid, y)
Sqrt(y) == SqrtBetween(0, 20000, y)

\* 6378.139 * 2.0 * np.arctan2(np.sqrt(d), np.sqrt(1 - d)) in metres: twice
\* the radius times the arcsine of sqrt(d), the arcsine by its first two terms
distance(d) ==
    LET x == Sqrt(100 * d)
        a == x + (((x * x) \div 100000) * x) \div 600000
    IN  (127563 * a) \div 1000

\* mutant: the last of the minima
argmin_last(q) ==
    CHOOSE k \in DOMAIN q : (\A j \in DOMAIN q : q[k] <= q[j])
                            /\ (\A j \in DOMAIN q : j > k => q[k] < q[j])

\* np.argmin: the index of the first minimum
argmin(q) ==
    CHOOSE k \in DOMAIN q : (\A j \in DOMAIN q : q[k] <= q[j])
                            /\ (\A j \in DOMAIN q : j < k => q[k] < q[j])

\* closest_station(imdb_file, lon, lat): the stations rows in rowid order as
\* records id, name, lon, lat, dist; argmin of an empty array raises
closest_station(lon, lat) ==
    LET r == [k \in DOMAIN stations |->
                [kind |-> "record", id |-> stations[k].id, name |-> S7(stations[k].name),
                 lon |-> stations[k].longitude, lat |-> stations[k].latitude,
                 dist |-> distance(haversine(stations[k].longitude,
                                             stations[k].latitude, lon, lat))]]
    IN  IF r = <<>> THEN [kind |-> "raise", error |-> "ValueError"]
        ELSE r[argmin([k \in DOMAIN r |-> r[k].dist])]

\* station_id=None
NoId == -1

\* station_details(imdb_file, station_name, station_id): the rows selected by
\* name, else by id, else all; one row comes back as a record, any other
\* number as an array of records
station_details(station_name, station_id) ==
    LET rows == IF station_name # "None"
                THEN SelectSeq(stations, LAMBDA x : x.name = station_name)
                ELSE IF station_id # NoId
                THEN SelectSeq(stations, LAMBDA x : x.id = station_id)
                ELSE stations
        r == [k \in DOMAIN rows |->
                [kind |-> "record", id |-> rows[k].id, name |-> S7(rows[k].name),
                 lon |-> rows[k].longitude, lat |-> rows[k].latitude]]
    IN  IF Len(r) = 1 THEN r[1] ELSE [kind |-> "array", rows |-> r]

\* one call of closest_station on the built store
ClosestStation(lon, lat) ==
    /\ pc = "done"
    /\ ret' = closest_station(lon, lat)
    /\ lastq' = [op |-> "closest_station", lon |-> lon, lat |-> lat,
                 station |-> NoStation, im |-> "None", reads |-> 1, fanout |-> 0, hit |-> FALSE]
    /\ fresh' = FALSE
    /\ UNCHANGED <<inputVars, buildVars, storeVars, cache, fill, cache_dir, calls>>

\* one call of station_details on the built store
StationDetails(station_name, station_id) ==
    /\ pc = "done"
    /\ ret' = station_details(station_name, station_id)
    /\ lastq' = [op |-> "station_details", name |-> station_name, id |-> station_id,
                 station |-> NoStation, im |-> "None", reads |-> 1, fanout |-> 0, hit |-> FALSE]
    /\ fresh' = FALSE
    /\ UNCHANGED <<inputVars, buildVars, storeVars, cache, fill, cache_dir, calls>>

\* fill_cache up to its loop: station_details(imdb_file) and iter() of what
\* it returns; the items of a single record are its fields, and the first
\* field, an integer, has no attribute name
FillCache ==
    /\ pc = "done"
    /\ fill.pc = "idle"
    /\ LET d == station_details("None", NoId)
       IN  IF d.kind = "record"
           THEN /\ fill' = [pc |-> "raised", todo |-> <<>>]
                /\ ret' = [kind |-> "raise", error |-> "AttributeError"]
           ELSE /\ fill' = [pc |-> IF d.rows = <<>> THEN "done" ELSE "loop",
                            todo |-> [k \in DOMAIN d.rows |-> d.rows[k].name]]
                /\ ret' = [kind |-> "None"]
    /\ lastq' = NoCall
    /\ fresh' = FALSE
    /\ UNCHANGED <<inputVars, buildVars, storeVars, cache, cache_dir, calls>>

\* one turn of the loop of fill_cache: station_ims(imdb_file, station.name)
FillStep ==
    /\ pc = "done"
    /\ fill.pc = "loop"
    /\ LET r == station_ims(Head(fill.todo), "None")
       IN  /\ ret' = r.ret
           /\ cache' = r.cache
           /\ lastq' = [station |-> Head(fill.todo), im |-> "None", reads |-> r.reads,
                        fanout |-> r.fanout, hit |-> r.hit]
           /\ fill' = [pc |-> IF r.ret.kind = "raise" THEN "raised"
                              ELSE IF Tail(fill.todo) = <<>> THEN "done" ELSE "loop",
                       todo |-> Tail(fill.todo)]
           /\ cache_dir' = (cache_dir \/ r.cache # cache)
    /\ fresh' = TRUE
    /\ UNCHANGED <<inputVars, buildVars, storeVars, calls>>

NextRead ==
    \/ NextBuild
    \/ \E station \in ReadNames, im \in {"None", "PGA"} : Query(station, im)
    \/ \E p \in QueryPoints : ClosestStation(p[1], p[2])
    \/ \E station_name \in {"None"} \cup ReadNames, station_id \in {NoId} \cup 1..Cardinality(ReadNames) :
          StationDetails(station_name, station_id)
    \/ FillCache
    \/ FillStep

SpecRead == InitRead /\ [][NextRead]_vars

\* ------------------------------------------------------------------ calls side by side

\* a build over at most MaxConcFiles files of column PGA, followed by
\* NumCalls calls of station_ims(imdb_file, station) that run side by side
InitCalls ==
    InitWith(FileLists(MaxConcFiles,
                       {<<>>, <<(<<"A", "geom">>)>>, <<(<<"A", "geom">>), (<<"B", "geom">>)>>},
                       {<<"PGA">>}),
             StationLists, 1..MaxProc)

\* a stretch of a file no writer has filled yet
Hole == <<"NUL">>

\* write(line) at line offset off of a file another writer may have truncated
write_at(file, off, line) ==
    [k \in 1..(IF Len(file) > off THEN Len(file) ELSE off + 1) |->
        IF k = off + 1 THEN line
        ELSE IF k <= Len(file) THEN file[k]
        ELSE Hole]

\* a caller enters station_ims
CallStart(p, station) ==
    /\ pc = "done"
    /\ calls[p].pc = "idle"
    /\ calls' = [calls EXCEPT ![p] = [NoRun EXCEPT !.pc = "exists", !.station = station]]
    /\ UNCHANGED <<inputVars, buildVars, storeVars, cache, ret, lastq, fresh, fill, cache_dir>>

\* if os.path.exists(csv)
Exists(p) ==
    /\ calls[p].pc = "exists"
    /\ calls' = [calls EXCEPT
                   ![p].pc = IF cache_exists(csv_path(calls[p].station))
                             THEN "read_csv" ELSE "select"]
    /\ UNCHANGED <<inputVars, buildVars, storeVars, cache, ret, lastq, fresh, fill, cache_dir>>

\* return pd.read_csv(csv, index_col=0): a file without a line raises
\* EmptyDataError, any other is parsed as far as it is written
ReadCsv(p) ==
    /\ calls[p].pc = "read_csv"
    /\ LET text == cache[csv_path(calls[p].station)]
       IN  calls' = [calls EXCEPT
                       ![p].pc = IF text = <<>> THEN "raised" ELSE "returned",
                       ![p].ret = IF text = <<>>
                                  THEN [kind |-> "raise", error |-> "EmptyDataError"]
                                  ELSE read_csv(text)]
    /\ UNCHANGED <<inputVars, buildVars, storeVars, cache, ret, lastq, fresh, fill, cache_dir>>

\* the SELECTs of station_ims up to the DataFrame
Select(p) ==
    /\ calls[p].pc = "select"
    /\ LET found == station_id_rows(calls[p].station)
           df == Assemble(found[1].id)
       IN  IF found = <<>>
           THEN calls' = [calls EXCEPT ![p].pc = "returned", ![p].ret = [kind |-> "None"]]
           ELSE IF ims = <<>>
           THEN calls' = [calls EXCEPT ![p].pc = "raised",
                                       ![p].ret = [kind |-> "raise", error |-> "IndexError"]]
           ELSE IF df.kind = "raise"
           THEN calls' = [calls EXCEPT ![p].pc = "raised", ![p].ret = df]
           ELSE calls' = [calls EXCEPT ![p].pc = "isdir", ![p].df = df]
    /\ UNCHANGED <<inputVars, buildVars, storeVars, cache, ret, lastq, fresh, fill, cache_dir>>

\* if not os.path.isdir(os.path.dirname(csv))
IsDir(p) ==
    /\ calls[p].pc = "isdir"
    /\ calls' = [calls EXCEPT ![p].pc = IF cache_dir THEN "to_csv" ELSE "makedirs"]
    /\ UNCHANGED <<inputVars, buildVars, storeVars, cache, ret, lastq, fresh, fill, cache_dir>>

\* os.makedirs(os.path.dirname(csv)): raises FileExistsError when the
\* directory exists by now
MakeDirs(p) ==
    /\ calls[p].pc = "makedirs"
    /\ IF cache_dir
       THEN calls' = [calls EXCEPT ![p].pc = "raised",
                                   ![p].ret = [kind |-> "raise", error |-> "FileExistsError"]]
       ELSE calls' = [calls EXCEPT ![p].pc = "to_csv"]
    /\ cache_dir' = TRUE
    /\ UNCHANGED <<inputVars, buildVars, storeVars, cache, ret, lastq, fresh, fill>>

\* df.to_csv(csv) opens the file for writing: it is created, or truncated
OpenCsv(p) ==
    /\ calls[p].pc = "to_csv"
    /\ cache' = [s \in DOMAIN cache \cup {csv_path(calls[p].station)} |->
                   IF s = csv_path(calls[p].station) THEN <<>> ELSE cache[s]]
    /\ calls' = [calls EXCEPT ![p].pc = "write", ![p].off = 0]
    /\ UNCHANGED <<inputVars, buildVars, storeVars, ret, lastq, fresh, fill, cache_dir>>

\* df.to_csv(csv) writes its next line
WriteCsv(p) ==
    /\ calls[p].pc = "write"
    /\ LET text == to_csv(calls[p].df)
           csv == csv_path(calls[p].station)
       IN  /\ cache' = [cache EXCEPT
                           ![csv] = write_at(cache[csv], calls[p].off, text[calls[p].off + 1])]
           /\ calls' = [calls EXCEPT
                           ![p].off = calls[p].off + 1,
                           ![p].pc = IF calls[p].off + 1 = Len(text) THEN "return" ELSE "write"]
    /\ UNCHANGED <<inputVars, buildVars, storeVars, ret, lastq, fresh, fill, cache_dir>>

\* return df
Return(p) ==
    /\ calls[p].pc = "return"
    /\ calls' = [calls EXCEPT ![p].pc = "returned", ![p].ret = calls[p].df]
    /\ UNCHANGED <<inputVars, buildVars, storeVars, cache, ret, lastq, fresh, fill, cache_dir>>

NextCalls ==
    \/ NextBuild
    \/ \E p \in Procs, station \in Names : CallStart(p, station)
    \/ \E p \in Procs : Exists(p)
    \/ \E p \in Procs : ReadCsv(p)
    \/ \E p \in Procs : Select(p)
    \/ \E p \in Procs : IsDir(p)
    \/ \E p \in Procs : MakeDirs(p)
    \/ \E p \in Procs : OpenCsv(p)
    \/ \E p \in Procs : WriteCsv(p)
    \/ \E p \in Procs : Return(p)

SpecCalls == InitCalls /\ [][NextCalls]_vars

\* ------------------------------------------------------------------ claims

\* what the claims speak of, read off the inputs
FileIndices == 0..(Len(csvs) - 1)

\* the retained ("geom") rows of file k
RetainedRows(k) ==
    {r \in DOMAIN csvs[k + 1].rows : csvs[k + 1].rows[r].component = "geom"}

\* the stations of interest of file k: the names of its retained rows that the
\* station list holds
InterestSet(k) ==
    {csvs[k + 1].rows[r].station : r \in RetainedRows(k)} \cap DOMAIN station_ll

FilesOfInterest == {k \in FileIndices : InterestSet(k) # {}}

\* the cells of measure im that file k holds for station s
Cells(k, s, im) ==
    {csvs[k + 1].rows[r].val[im] :
        r \in {x \in RetainedRows(k) : csvs[k + 1].rows[x].station = s}}

SimRows(name) == {x \in DOMAIN simulations : simulations[x].name = name}
StationRows(name) == {x \in DOMAIN stations : stations[x].name = name}

\* C1: after a successful build the store holds one Simulation per file with a
\* station of interest, one Station per name of interest, and in every Measure
\* table exactly one row per (such file, station of interest in it) carrying
\* the file's cell; station_ims of a registered station then returns one row
\* per Simulation containing it and one column per Measure.
C1_EndToEnd ==
    pc = "done" =>
        LET names == UNION {InterestSet(k) : k \in FilesOfInterest}
            pairs == UNION {{<<k, s>> : s \in InterestSet(k)} : k \in FilesOfInterest}
        IN  /\ Len(simulations) = Cardinality(FilesOfInterest)
            /\ \A k \in FilesOfInterest : SimRows(csvs[k + 1].sim) # {}
            /\ Len(stations) = Cardinality(names)
            /\ \A s \in names : StationRows(s) # {}
            /\ \A im \in Range(ims) :
                /\ Len(tables[im]) = Cardinality(pairs)
                /\ \A p \in pairs :
                    \E r \in DOMAIN tables[im] :
                        /\ \E x \in StationRows(p[2]) : tables[im][r].station_id = stations[x].id
                        /\ \E x \in SimRows(csvs[p[1] + 1].sim) :
                              tables[im][r].simulation_id = simulations[x].id
                        /\ im \in Range(csvs[p[1] + 1].cols)
                        /\ tables[im][r].value \in Cells(p[1], p[2], im)
            /\ (lastq.station \in names /\ lastq.im = "None") =>
                /\ ret.kind = "frame"
                /\ ret.columns = ims
                /\ Len(ret.index) =
                     Cardinality({k \in FilesOfInterest : lastq.station \in InterestSet(k)})

\* no Simulation carries the name of a parsed file without a station of
\* interest, no stored value is one of its cells, and when it is the first file
\* the registry and the tables are those of its columns
C2_SkippedState ==
    \A k \in FileIndices :
        (csvs[k + 1].ok /\ InterestSet(k) = {}) =>
            /\ SimRows(csvs[k + 1].sim) = {}
            /\ \A im \in DOMAIN tables : \A r \in DOMAIN tables[im] :
                  \A x \in DOMAIN csvs[k + 1].rows :
                      im \in DOMAIN csvs[k + 1].rows[x].val =>
                          tables[im][r].value # csvs[k + 1].rows[x].val[im]
            /\ (k = 0 /\ pc \in {"fetch", "commit", "done"}) =>
                  /\ ims = csvs[1].cols
                  /\ DOMAIN tables = Range(csvs[1].cols)

\* the commit of a file without a station of interest leaves the store as it
\* is and moves on to the next file
C2_SkipStep ==
    (pc = "commit" /\ InterestSet(i) = {} /\ pc' # "commit") =>
        /\ pc' = "fetch"
        /\ i' = i + 1
        /\ UNCHANGED storeVars

\* C2: a file without a station of interest creates no Simulation and no row,
\* the build goes on with the next file, and when it is the first file the
\* schema is still created from its columns.
C2_SkipFile == [](C2_SkippedState) /\ [][C2_SkipStep]_vars

\* reached: the first file was skipped, a later one committed, the build done
C2_Witness ==
    /\ pc = "done"
    /\ Len(csvs) = 2
    /\ csvs[1].ok /\ csvs[1].rows # <<>> /\ InterestSet(0) = {}
    /\ InterestSet(1) # {}
    /\ Len(simulations) = 1

\* C3: station registration is idempotent: whether a name recurs across files
\* or within the station list of one file, the registration succeeds, every
\* reference resolves to the identity of the first registration and the
\* stations table holds exactly one row for the name.
C3_Idempotent ==
    /\ error # "IntegrityError: stations.name"
    /\ \A s \in DOMAIN station_ids :
          /\ Cardinality(StationRows(s)) = 1
          /\ \A x \in StationRows(s) : stations[x].id = station_ids[s]

\* C4: every Measure table holds at most one row per (station identity,
\* simulation identity) pair, whatever the files list, and no row has a null
\* value.
C4_OneRowPerPair ==
    \A im \in DOMAIN tables :
        /\ \A a, b \in DOMAIN tables[im] :
              (/\ tables[im][a].station_id = tables[im][b].station_id
               /\ tables[im][a].simulation_id = tables[im][b].simulation_id) => a = b
        /\ \A a \in DOMAIN tables[im] : tables[im][a].value \in Int

\* a call with the arguments of the call right before it
C5_SecondCall ==
    (/\ pc = "done" /\ fresh /\ fresh'
     /\ lastq'.station = lastq.station
     /\ lastq'.im = lastq.im) =>
        /\ ret' = ret
        /\ ret.kind \in {"frame", "series"} =>
              (lastq'.hit /\ lastq'.reads = 0 /\ lastq'.fanout = 0)

C6_ParseFailureSkipped ==
    (pc = "failed" /\ error = "ParseError") => i = 0

\* C7: the parse tasks submitted and not yet consumed never exceed the pool
\* size, whatever the number of files.
C7_BoundedLookahead == Cardinality(sink) <= nproc

\* reached: a full window of three tasks after the window has moved
C7_Witness ==
    /\ nproc = 3
    /\ Len(csvs) = 4
    /\ sink = {1, 2, 3}
    /\ pc = "commit"

\* C8: the commit loop takes the files in discovery order, each once, and the
\* task it waits on is the oldest outstanding one, whatever order the workers
\* finish in.
C8_DiscoveryOrder ==
    /\ order = [k \in 1..Len(order) |-> k - 1]
    /\ Len(order) = (IF pc = "commit" THEN i + 1 ELSE i) \/ pc = "failed"
    /\ (pc = "fetch" /\ i < Len(csvs)) => (i \in sink /\ \A j \in sink : i <= j)
    /\ pc = "done" => (Len(order) = Len(csvs) /\ sink = {})

\* reached: the loop waits for file 1 while the newer files 2 and 3 are parsed
C8_Witness ==
    /\ pc = "fetch"
    /\ i = 1
    /\ 1 \notin Range(finished)
    /\ {2, 3} \subseteq Range(finished)

\* the names of the retained rows of file k that the station list holds, in
\* row order
InterestList(k) ==
    LET kept == SelectSeq(csvs[k + 1].rows,
                          LAMBDA r : r.component = "geom" /\ r.station \in DOMAIN station_ll)
    IN  [x \in DOMAIN kept |-> kept[x].station]

\* the first occurrences of a list, in order
RECURSIVE FirstSeen(_)
FirstSeen(q) ==
    IF q = <<>> THEN <<>>
    ELSE LET init == FirstSeen(SubSeq(q, 1, Len(q) - 1))
         IN  IF q[Len(q)] \in Range(init) THEN init ELSE Append(init, q[Len(q)])

\* the content n committed files must leave, from the inputs alone
RECURSIVE ExpectedSims(_)
ExpectedSims(n) ==
    IF n = 0 THEN <<>>
    ELSE LET before == ExpectedSims(n - 1)
         IN  IF InterestList(n - 1) = <<>> THEN before
             ELSE Append(before, [id |-> Len(before) + 1, name |-> csvs[n].sim])

ExpectedStations(n) ==
    LET seen == FirstSeen(Concat([k \in 1..n |-> InterestList(k - 1)]))
    IN  [x \in DOMAIN seen |->
            [id |-> x, name |-> seen[x],
             longitude |-> station_ll[seen[x]][1], latitude |-> station_ll[seen[x]][2]]]

ExpectedStationId(n, s) ==
    LET seen == FirstSeen(Concat([k \in 1..n |-> InterestList(k - 1)]))
    IN  CHOOSE x \in DOMAIN seen : seen[x] = s

RECURSIVE ExpectedRows(_, _)
ExpectedRows(im, n) ==
    IF n = 0 THEN <<>>
    ELSE LET before == ExpectedRows(im, n - 1)
             labels == InterestList(n - 1)
             kept == SelectSeq(csvs[n].rows, LAMBDA r : r.component = "geom")
             picked == Concat([x \in DOMAIN labels |->
                                 SelectSeq(kept, LAMBDA r : r.station = labels[x])])
         IN  IF labels = <<>> \/ im \notin Range(csvs[n].cols) THEN before
             ELSE before \o [x \in DOMAIN picked |->
                               [station_id |-> ExpectedStationId(n, picked[x].station),
                                simulation_id |-> Len(ExpectedSims(n)),
                                value |-> picked[x].val[im]]]

\* C9: the content of the store is fixed by the files and the station list,
\* whatever the pool size and the order the workers finish in: Simulation
\* identities are distinct, Station identities follow the first-seen order of
\* the commit loop (file order, then row order).
C9_Deterministic ==
    pc \in {"fetch", "commit", "done"} =>
        /\ simulations = ExpectedSims(i)
        /\ stations = ExpectedStations(i)
        /\ \A im \in DOMAIN tables : tables[im] = ExpectedRows(im, i)
        /\ \A a, b \in DOMAIN simulations :
              simulations[a].id = simulations[b].id => a = b

\* reached: a finished build of two files and two stations whose second file
\* was parsed before the first
C9_Witness ==
    /\ pc = "done"
    /\ finished = <<1, 0>>
    /\ Len(simulations) = 2
    /\ Len(stations) = 2
    /\ InterestList(0) # InterestList(1)

\* C10: the rows of a returned table are labelled in non-decreasing order of
\* simulation identity, and every value is the stored value of its column's
\* Measure for the queried station and the simulation of its row label.
C10_Aligned ==
    (pc = "done" /\ ret.kind = "frame") =>
        LET sid == stations[CHOOSE x \in DOMAIN stations :
                              stations[x].name = lastq.station].id
            simId(r) == simulations[CHOOSE x \in DOMAIN simulations :
                                      simulations[x].name = ret.index[r]].id
        IN  /\ \A a, b \in DOMAIN ret.index : a <= b => simId(a) <= simId(b)
            /\ \A r \in DOMAIN ret.index : \A k \in DOMAIN ret.columns :
                  \E x \in DOMAIN tables[ret.columns[k]] :
                      /\ tables[ret.columns[k]][x].station_id = sid
                      /\ tables[ret.columns[k]][x].simulation_id = simId(r)
                      /\ tables[ret.columns[k]][x].value = ret.values[r][k]

\* a call of station_ims for a name without a stations row and without a
\* cache entry
C11_NotFoundStep ==
    (/\ pc = "done" /\ fresh'
     /\ lastq'.station \notin DOMAIN cache
     /\ StationRows(lastq'.station) = {}) =>
        /\ ret'.kind = "None"
        /\ ~lastq'.hit /\ lastq'.fanout = 0
        /\ cache' = cache
        /\ UNCHANGED storeVars

\* C11: station_ims for a station name that is absent from the store and has
\* no cache entry returns no table (None), creates no cache entry for the
\* name and leaves the store as it is.
C11_NotFound == [][C11_NotFoundStep]_vars

\* reached: station B was asked of a store that holds station A alone, after
\* a call that cached A
C11_Witness ==
    /\ pc = "done" /\ fresh
    /\ lastq.station = "B"
    /\ ret.kind = "None"
    /\ StationRows("B") = {} /\ StationRows("A") # {}
    /\ DOMAIN cache = {"A"}

\* the simulation identities with a row for a station in a Measure table
SimsAt(im, station_id) ==
    {tables[im][r].simulation_id :
        r \in {x \in DOMAIN tables[im] : tables[im][x].station_id = station_id}}

\* C12: after a build all Measure tables agree on the (station identity,
\* simulation identity) pairs they hold: for every station and every two
\* Measures the simulation identities with a row are the same, also when a
\* later file carries other columns than the first.
C12_TablesAgree ==
    pc = "done" =>
        \A im1, im2 \in DOMAIN tables : \A x \in DOMAIN stations :
            SimsAt(im1, stations[x].id) = SimsAt(im2, stations[x].id)

\* files k < j of the same base filename, each with a station of interest
Collide(k, j) ==
    /\ k < j
    /\ csvs[k + 1].sim = csvs[j + 1].sim
    /\ InterestSet(k) # {}
    /\ InterestSet(j) # {}

\* the file a stored value was read from (see CellValue)
FileOfValue(v) == (v \div 100) - 1

\* identities and names are unique, and the later of two colliding files has
\* no row in any table
C13_NoMerge ==
    /\ \A a, b \in DOMAIN simulations :
          (simulations[a].id = simulations[b].id \/ simulations[a].name = simulations[b].name)
              => a = b
    /\ \A j \in FileIndices :
          (\E k \in FileIndices : Collide(k, j)) =>
              \A im \in DOMAIN tables : \A r \in DOMAIN tables[im] :
                  FileOfValue(tables[im][r].value) # j

\* a registration appends one row with an identity no row had; the commit of
\* a file whose name is registered ends the build with the uniqueness
\* violation and writes nothing
C13_RegisterStep ==
    /\ simulations' # simulations /\ pc = "commit" =>
          /\ Len(simulations') = Len(simulations) + 1
          /\ SubSeq(simulations', 1, Len(simulations)) = simulations
          /\ simulations'[Len(simulations')].name = csvs[i + 1].sim
          /\ \A x \in DOMAIN simulations :
                simulations[x].id # simulations'[Len(simulations')].id
    /\ (pc = "commit" /\ pc' # "commit" /\ InterestSet(i) # {} /\ SimRows(csvs[i + 1].sim) # {}) =>
          /\ pc' = "failed"
          /\ error' = "IntegrityError: simulations.name"
          /\ UNCHANGED storeVars

\* C13: registering a simulation always creates a new identity, and the
\* registration of a second file with the base filename of a registered one
\* fails with a uniqueness violation: the files are never merged under one
\* Simulation and no row of the second file is stored.
C13_DuplicateName == [](C13_NoMerge) /\ [][C13_RegisterStep]_vars

\* reached: the second of two files named alike, both holding a station of
\* interest, ended the build with the uniqueness violation
C13_Witness ==
    /\ pc = "failed"
    /\ error = "IntegrityError: simulations.name"
    /\ i = 1
    /\ Collide(0, 1)
    /\ Len(simulations) = 1
    /\ \E im \in DOMAIN tables : tables[im] # <<>>

\* C14: schema initialization fails when the measure-name list is empty: a
\* build whose first file yields no Measure column goes no further and leaves
\* no store with zero value tables.
C14_SchemaError ==
    (Len(csvs) > 0 /\ csvs[1].ok /\ csvs[1].cols = <<>>) =>
        /\ pc \in {"start", "init", "failed"}
        /\ pc = "failed" => (ims = <<>> /\ simulations = <<>> /\ stations = <<>>)

\* C15: a build on a location that holds a store discards it: from the first
\* step on, the Measures, Stations, Simulations and rows are those the new
\* files and station list give, with no row of the old store left.
C15_Replaced ==
    /\ pc = "init" => (ims = <<>> /\ stations = <<>> /\ simulations = <<>> /\ tables = <<>>)
    /\ pc \in {"fetch", "commit", "done"} =>
          /\ ims = csvs[1].cols
          /\ DOMAIN tables = Range(csvs[1].cols)
          /\ simulations = ExpectedSims(i)
          /\ stations = ExpectedStations(i)
          /\ \A im \in DOMAIN tables : tables[im] = ExpectedRows(im, i)
    /\ pc # "start" =>
          /\ \A x \in DOMAIN simulations : simulations[x].name \in SharedSimNames
          /\ \A im \in DOMAIN tables : \A r \in DOMAIN tables[im] :
                FileOfValue(tables[im][r].value) \in FileIndices

\* reached: a finished build over an old store of station B and measure PGV
\* that leaves station A and measure PGA alone
C15_Witness ==
    /\ pc = "done"
    /\ prior = OldStore
    /\ ims = <<"PGA">>
    /\ Len(stations) = 1 /\ stations[1].name = "A"
    /\ Len(simulations) = 1
    /\ Len(tables["PGA"]) = 1

\* a step on the finished store
C16_QueryStep ==
    pc = "done" =>
        /\ UNCHANGED storeVars
        /\ \A s \in DOMAIN cache \cup DOMAIN cache' :
              (s \notin DOMAIN cache \/ s \notin DOMAIN cache' \/ cache'[s] # cache[s]) =>
                  (fresh' /\ s = lastq'.station)

\* C16: station_ims, closest_station and station_details never change the
\* ims, stations, simulations and per-measure tables, whatever their
\* arguments; the one thing a call may change is the cache entry of the
\* station station_ims was asked for.
C16_ReadOnly == [][C16_QueryStep]_vars

\* reached: station_details answered on a store of three stations after
\* station_ims cached two of them
C16_Witness ==
    /\ pc = "done"
    /\ lastq # NoCall /\ ~fresh /\ lastq.op = "station_details"
    /\ ret.kind = "record"
    /\ Len(stations) = 3
    /\ Len(tables["PGA"]) = 3
    /\ DOMAIN cache = {"A", "B"}

\* the distance closest_station computes for stations row x
DistanceOf(x, lon, lat) ==
    distance(haversine(stations[x].longitude, stations[x].latitude, lon, lat))

\* C17: on a store with a station, closest_station(lon, lat) returns a
\* registered station together with its haversine distance to (lon, lat); no
\* station is closer, no station as close has a lower identity, and at the
\* coordinates of a registered station the distance returned is 0 (stations
\* at (0,0), (1,1), (10,10) asked at (0.1,0.1) give the one at (0,0)).
C17_Closest ==
    (pc = "done" /\ ~fresh /\ lastq # NoCall /\ lastq.op = "closest_station"
     /\ stations # <<>>) =>
        /\ ret.kind = "record"
        /\ \E x \in DOMAIN stations :
              /\ ret.id = stations[x].id
              /\ ret.name = S7(stations[x].name)
              /\ ret.lon = stations[x].longitude /\ ret.lat = stations[x].latitude
              /\ ret.dist = DistanceOf(x, lastq.lon, lastq.lat)
        /\ \A y \in DOMAIN stations :
              /\ ret.dist <= DistanceOf(y, lastq.lon, lastq.lat)
              /\ ret.dist = DistanceOf(y, lastq.lon, lastq.lat) => ret.id <= stations[y].id
        /\ (\E y \in DOMAIN stations :
                stations[y].longitude = lastq.lon /\ stations[y].latitude = lastq.lat) =>
              (ret.dist = 0 /\ ret.lon = lastq.lon /\ ret.lat = lastq.lat)
        /\ (/\ \A n \in ReadNames : \E y \in DOMAIN stations : stations[y].name = n
            /\ station_ll["C"] = <<100, 100>>
            /\ lastq.lon = 1 /\ lastq.lat = 1) => (ret.lon = 0 /\ ret.lat = 0)

\* reached: of two stations as far from the point, B came back, registered
\* before A
C17_Witness ==
    /\ pc = "done" /\ ~fresh /\ lastq # NoCall /\ lastq.op = "closest_station"
    /\ Len(stations) = 2
    /\ \A y \in DOMAIN stations : DistanceOf(y, lastq.lon, lastq.lat) = ret.dist
    /\ ret.dist > 0
    /\ ret.id = 1
    /\ ret.name = "b'B'"

\* C20: after fill_cache on a built store every registered Station has a
\* cache entry, for any number of stations (one included), and the entry is
\* the table station_ims assembles for the station's name.
C20_Filled ==
    (pc = "done" /\ fill.pc \in {"done", "raised"}) =>
        \A x \in DOMAIN stations :
            /\ stations[x].name \in DOMAIN cache
            /\ Assemble(stations[x].id).kind = "frame" =>
                  cache[stations[x].name] = to_csv(Assemble(stations[x].id))

\* what station_ims(station) returns when it runs alone on the store with no
\* cache entry for the station
Alone(station) ==
    LET found == station_id_rows(station)
    IN  IF found = <<>> THEN [kind |-> "None"]
        ELSE IF ims = <<>> THEN [kind |-> "raise", error |-> "IndexError"]
        ELSE Assemble(found[1].id)

\* call p has ended as it would have alone
AsAlone(p) ==
    /\ calls[p].pc # "raised" \/ Alone(calls[p].station).kind = "raise"
    /\ calls[p].pc \in {"returned", "raised"} => calls[p].ret = Alone(calls[p].station)

\* C18: two station_ims calls for the same uncached station that run side by
\* side both complete and return the table a call alone returns, under every
\* interleaving; the cache entry they leave is the one a call alone leaves,
\* and neither returns a cache entry that is not yet fully written.
C18_SameStation ==
    \A p, q \in Procs :
        (p # q /\ calls[p].pc # "idle" /\ calls[q].pc # "idle"
         /\ calls[p].station = calls[q].station) =>
            /\ AsAlone(p)
            /\ (calls[p].pc = "returned" /\ calls[q].pc = "returned"
                /\ Alone(calls[p].station).kind = "frame") =>
                  cache[csv_path(calls[p].station)] = to_csv(Alone(calls[p].station))

\* C19: station_ims calls for different stations that run side by side are
\* independent: under every interleaving, the cache directory missing at
\* first included, each completes with the result and the cache entry it
\* has alone, and neither makes the other fail.
C19_OtherStation ==
    \A p, q \in Procs :
        (p # q /\ calls[p].pc # "idle" /\ calls[q].pc # "idle"
         /\ calls[p].station # calls[q].station) =>
            /\ AsAlone(p)
            /\ (calls[p].pc = "returned" /\ Alone(calls[p].station).kind = "frame") =>
                  cache[csv_path(calls[p].station)] = to_csv(Alone(calls[p].station))

\* C21: station_details returns the one Station matching the given name or
\* the given identity, and the collection of all Stations when neither is
\* given, whatever their number (one included); a call that gives both is
\* not silently resolved in favour of one of them.
C21_Details ==
    (pc = "done" /\ ~fresh /\ lastq # NoCall /\ lastq.op = "station_details") =>
        /\ (lastq.name = "None" /\ lastq.id = NoId) =>
              /\ ret.kind = "array"
              /\ Len(ret.rows) = Len(stations)
              /\ \A x \in DOMAIN stations : ret.rows[x].id = stations[x].id
        /\ (lastq.name # "None" /\ lastq.id = NoId /\ StationRows(lastq.name) # {}) =>
              /\ ret.kind = "record"
              /\ \E x \in StationRows(lastq.name) : ret.id = stations[x].id
        /\ (lastq.name = "None" /\ lastq.id # NoId /\ lastq.id \in 1..Len(stations)) =>
              /\ ret.kind = "record"
              /\ ret.id = lastq.id
        /\ (lastq.name # "None" /\ lastq.id # NoId) => ret.kind = "raise"

\* C22: while file i is committed, the parse tasks of the files i + 1 ..
\* i + nproc (or up to the last file) are submitted and not yet consumed: no
\* commit starts with a free slot of the window while a file is unsubmitted.
C22_WindowFull ==
    pc = "commit" =>
        /\ sink = {j \in FileIndices : i < j /\ j <= i + nproc}
        /\ (Cardinality(sink) < nproc) => \A j \in FileIndices : j <= i \/ j \in sink

\* reached: the commit of file 1 of four with a pool of two, the window moved
\* on to files 2 and 3
C22_Witness ==
    /\ pc = "commit"
    /\ nproc = 2
    /\ Len(csvs) = 4
    /\ i = 1
    /\ sink = {2, 3}

\* the build has ended, every file was fetched once, in turn, and committed or
\* skipped, and no task is left; or it has ended before the first commit for
\* want of a Measure set (no file, or a first file that does not parse)
C23_AllDone ==
    \/ /\ pc = "done"
       /\ order = [k \in 1..Len(csvs) |-> k - 1]
       /\ i = Len(csvs)
       /\ sink = {}
    \/ /\ pc = "failed"
       /\ i = 0
       /\ ims = <<>>

\* the loop moves on from file i only after the parse of file i has finished
C23_NoOvertake ==
    (Len(order') > Len(order) \/ i' # i) => i \in Range(finished)

\* C23: with workers that finish every parse task, the build ends with every
\* discovered file committed or skipped, once each, and no task outstanding;
\* and the committer does not get past file i before the parse of file i has
\* finished.
C23_Terminates == <>(C23_AllDone) /\ [][C23_NoOvertake]_vars

\* the cache entry written before the rebuild is still there, as written
C24_EntryKept == "B" \in DOMAIN cache /\ cache["B"] = OldCache["B"]

\* a call for the station of the old cache entry
C24_StaleStep ==
    (pc = "done" /\ fresh' /\ lastq'.station = "B") =>
        /\ ret' = Project(read_csv(OldCache["B"]), lastq'.im)
        /\ lastq'.hit /\ lastq'.reads = 0 /\ lastq'.fanout = 0
        /\ UNCHANGED <<cache, storeVars>>

\* C24: a cache entry is authoritative once it exists: the build neither
\* removes nor rewrites it, and after a rebuild with other content, or
\* without the station, station_ims for the station returns the table cached
\* before the rebuild and does not read the store.
C24_Authoritative == [](C24_EntryKept) /\ [][C24_StaleStep]_vars

\* reached: the table of the old store came back for station B from a store
\* rebuilt with stations and a Measure the old one did not have, B not among
\* them
C24_Witness ==
    /\ pc = "done" /\ fresh
    /\ lastq.station = "B" /\ lastq.im = "None"
    /\ ret.kind = "frame"
    /\ ret.index = <<"old_HYP01">>
    /\ ret.columns = <<"PGV">>
    /\ ims = <<"PGA">>
    /\ StationRows("B") = {} /\ StationRows("A") # {}

\* the Measure tables disagree on the simulations of a station
Disagree(station_id) ==
    \E im \in DOMAIN tables : SimsAt(im, station_id) # SimsAt(ims[1], station_id)

\* C25: when the Measure tables disagree on the simulations present for a
\* station, station_ims still assembles and returns a table, and its rows are
\* the simulations of the first Measure's table for the station.
C25_FirstMeasureRows ==
    (pc = "done" /\ fresh /\ ~lastq.hit /\ lastq.im = "None" /\ ims # <<>>
     /\ StationRows(lastq.station) # {}) =>
        \A x \in StationRows(lastq.station) :
            Disagree(stations[x].id) =>
                /\ ret.kind = "frame"
                /\ Range(ret.index) =
                     {simulations[y].name :
                        y \in {z \in DOMAIN simulations :
                                 simulations[z].id \in SimsAt(ims[1], stations[x].id)}}

\* once the schema exists the registry and the value tables are those of the
\* first file's columns
C26_FirstFileColumns ==
    pc \in {"fetch", "commit", "done"} =>
        /\ ims = csvs[1].cols
        /\ DOMAIN tables = Range(csvs[1].cols)

\* no step after the schema creation changes the registry or the set of
\* value tables
C26_FixedStep ==
    pc \notin {"start", "init"} => (ims' = ims /\ DOMAIN tables' = DOMAIN tables)

\* C26: the Measure registry and the set of value tables are fixed by the
\* first parsed file: no later step, whatever columns later files hold, adds,
\* removes or renames a Measure or a value table.
C26_MeasuresFixed == [](C26_FirstFileColumns) /\ [][C26_FixedStep]_vars

\* reached: a second file with a column the first did not have ended the
\* build, Measure and value table still those of the first file
C26_Witness ==
    /\ pc = "failed"
    /\ error = "OperationalError: no such table"
    /\ i = 1
    /\ csvs[1].cols = <<"PGA">>
    /\ csvs[2].cols = <<"PGA", "PGV">>
    /\ ims = <<"PGA">>
    /\ DOMAIN tables = {"PGA"}
    /\ Len(tables["PGA"]) = 1

\* a commit that fails leaves the store as it was before the file
C27_FailedStep ==
    (pc = "commit" /\ pc' = "failed") =>
        /\ simulations' = simulations
        /\ stations' = stations
        /\ tables' = tables

\* C27: the commit of one source file is all-or-nothing: when simulation
\* registration, station registration or row insertion fails, the store holds
\* no Simulation of the file, no Station first introduced by it and no row of
\* it in any Measure table.
C27_AllOrNothing == [][C27_FailedStep]_vars

\* the build ended before a Measure set was established: no file matched, or
\* the first file failed to parse
C28_NoMeasureSet ==
    /\ pc = "failed"
    /\ order = <<>>
    /\ error \in {"KeyError", "ParseError"}

\* C28: a build that cannot establish a Measure set ends in an error state
\* without creating any schema table and leaves a store that existed at the
\* target location before the build untouched.
C28_StoreUntouched ==
    C28_NoMeasureSet =>
        /\ ims = prior.ims
        /\ stations = prior.stations
        /\ simulations = prior.simulations
        /\ tables = prior.tables

====
